---- MODULE Spec2Model ----
(***************************************************************************)
(* Model of monitor.py: one run of main() is fetch -> load -> diff ->      *)
(* save -> notify.  The snapshot file last_stock.json persists between     *)
(* runs; every run is a fresh process.                                     *)
(***************************************************************************)
EXTENDS Integers, Sequences, FiniteSets, TLC

(***************************************************************************)
(* Bounds of the model.                                                    *)
(***************************************************************************)
\* largest stock count a page reports
MaxCount == 1
\* most comma-separated segments in TARGET_URL
MaxUrls == 2

(***************************************************************************)
(* Values.                                                                 *)
(***************************************************************************)
\* item names scraped from the h4 titles ("HK-1" stands for a HK-prefixed one)
Names == {"CA", "DE", "HK-1"}
\* the names in the order sorted() gives them (code-point order)
NameOrder == <<"CA", "DE", "HK-1">>
\* k.startswith("HK")
StartsWithHK(k) == k \in {"HK-1"}
\* what dict.get(k) returns for a missing key; equal to no stock count
None == -1
Counts == 0..MaxCount
\* a dict name -> int, as fetch_stock and json.load produce it
EmptyDict == [k \in {} |-> 0]
Snapshots == UNION {[D -> Counts] : D \in SUBSET Names}
\* d.get(k)
Get(d, k) == IF k \in DOMAIN d THEN d[k] ELSE None
\* sorted(S) for a set of names
Sorted(S) == SelectSeq(NameOrder, LAMBDA k : k \in S)

(***************************************************************************)
(* fetch_stock: the URL list and the merge.                                *)
(***************************************************************************)
\* the pieces RAW_TARGET_URL.split(",") can give
RawSegments == {" ", " u1 "}
\* u.strip()
Strip(u) == CASE u = " " -> "" [] u = " u1 " -> "u1" [] OTHER -> u
RawTargetUrls == UNION {[1..n -> RawSegments] : n \in 1..MaxUrls}
\* [u.strip() for u in RAW_TARGET_URL.split(",") if u.strip()]
RECURSIVE SplitUrls(_)
SplitUrls(raw) ==
    IF raw = <<>> THEN <<>>
    ELSE IF Strip(Head(raw)) # ""
         THEN <<Strip(Head(raw))>> \o SplitUrls(Tail(raw))
         ELSE SplitUrls(Tail(raw))
\* fetch_stock_from_url(url): it raises (network, non-2xx) or returns a dict
PageResults ==
    {[ok |-> FALSE, result |-> EmptyDict]}
        \cup {[ok |-> TRUE, result |-> s] : s \in Snapshots}
\* total.update(part), keeping the first writer: a wrong merge
UpdateKeepFirst(total, part) ==
    [k \in DOMAIN total \cup DOMAIN part |->
        IF k \in DOMAIN total THEN total[k] ELSE part[k]]
\* total.update(part)
Update(total, part) ==
    [k \in DOMAIN total \cup DOMAIN part |->
        IF k \in DOMAIN part THEN part[k] ELSE total[k]]

(***************************************************************************)
(* The snapshot file.                                                      *)
(***************************************************************************)
\* json.dump(stock_dict): the object's members
JsonDump(d) == {<<k, d[k]>> : k \in DOMAIN d}
\* json.load(f) of such an object
JsonLoad(text) ==
    [k \in {m[1] : m \in text} |-> (CHOOSE m \in text : m[1] = k)[2]]
MissingFile == [state |-> "missing", text |-> {}]
CorruptFile == [state |-> "corrupt", text |-> {}]
\* save_stock that leaves the file as it was: a wrong save
WrittenFileStale(old, stock_dict) == old
\* the file save_stock(stock_dict) leaves, whatever was there
WrittenFile(old, stock_dict) == [state |-> "json", text |-> JsonDump(stock_dict)]
NoneValue == [none |-> TRUE, val |-> EmptyDict]
\* load_last_stock(): None when the file is missing or does not parse
LoadLastStock(f) ==
    IF f.state = "missing" THEN NoneValue
    ELSE IF f.state = "corrupt" THEN NoneValue
    ELSE [none |-> FALSE, val |-> JsonLoad(f.text)]

(***************************************************************************)
(* diff_stock.                                                             *)
(***************************************************************************)
\* o != n replaced by a comparison that takes a missing key for 0: a wrong diff
DiffersAbsentAsZero(o, n) ==
    (IF o = None THEN 0 ELSE o) # (IF n = None THEN 0 ELSE n)
\* o != n that skips a name the old snapshot lacks: a wrong diff
DiffersWhenOldKnown(o, n) == o # None /\ o # n
\* o != n
Differs(o, n) == o # n
\* the loop over all_keys, accumulating changes
RECURSIVE DiffLoop(_, _, _, _)
DiffLoop(keys, old, new, changes) ==
    IF keys = <<>> THEN changes
    ELSE LET k == Head(keys)
             o == Get(old, k)
             n == Get(new, k)
         IN DiffLoop(Tail(keys), old, new,
                     IF Differs(o, n) THEN changes @@ (k :> <<o, n>>)
                     ELSE changes)
diff_stock(old, new) ==
    DiffLoop(Sorted(DOMAIN old \cup DOMAIN new), old, new, EmptyDict)

(***************************************************************************)
(* The messages.  A message is its title, the lines of the HK group, the   *)
(* lines of the other group and the text after the timestamp line.  The    *)
(* timestamp (datetime.utcnow()) is left out: nothing reads it.            *)
(***************************************************************************)
Modes == {"realtime", "daily"}
\* one line of the full list: name, count, sold out (v == 0) or in stock
StockLine(d, k) ==
    [name |-> k, count |-> ToString(d[k]),
     status |-> IF d[k] = 0 THEN "sold_out" ELSE "in_stock"]
build_full_message(stock_dict, mode) ==
    [title |-> IF mode = "daily" THEN "daily_full" ELSE "realtime_full",
     hk    |-> LET ks == Sorted({k \in DOMAIN stock_dict : StartsWithHK(k)})
               IN [j \in 1..Len(ks) |-> StockLine(stock_dict, ks[j])],
     other |-> LET ks == Sorted({k \in DOMAIN stock_dict : ~StartsWithHK(k)})
               IN [j \in 1..Len(ks) |-> StockLine(stock_dict, ks[j])],
     suffix |-> ""]
\* "无" if x is None else str(x)
ValueText(x) == IF x = None THEN "none" ELSE ToString(x)
\* (x or 0)
OrZero(x) == IF x = None \/ x = 0 THEN 0 ELSE x
\* one line of the change list: name, old -> new, arrow
ChangeLine(changes, k) ==
    [name |-> k, count |-> ValueText(changes[k][1]) \o "->" \o ValueText(changes[k][2]),
     status |-> IF OrZero(changes[k][1]) < OrZero(changes[k][2]) THEN "up" ELSE "down"]
build_change_message(changes, mode) ==
    [title |-> IF mode = "daily" THEN "daily_changes" ELSE "realtime_changes",
     hk    |-> LET ks == Sorted({k \in DOMAIN changes : StartsWithHK(k)})
               IN [j \in 1..Len(ks) |-> ChangeLine(changes, ks[j])],
     other |-> LET ks == Sorted({k \in DOMAIN changes : ~StartsWithHK(k)})
               IN [j \in 1..Len(ks) |-> ChangeLine(changes, ks[j])],
     suffix |-> ""]
\* msg + "\n\n(首次采集)"
WithFirstRunNote(msg) == [msg EXCEPT !.suffix = "first_collection"]
\* the two warnings main() sends when it has no snapshot
FetchFailedMessage ==
    [title |-> "fetch_failed", hk |-> <<>>, other |-> <<>>, suffix |-> ""]
NothingParsedMessage ==
    [title |-> "nothing_parsed", hk |-> <<>>, other |-> <<>>, suffix |-> ""]
FullTitles == {"daily_full", "realtime_full"}
ChangeTitles == {"daily_changes", "realtime_changes"}
\* the item names a message has a line for
MessageNames(msg) ==
    {msg.hk[j].name : j \in DOMAIN msg.hk} \cup {msg.other[j].name : j \in DOMAIN msg.other}

(***************************************************************************)
(* State.                                                                  *)
(***************************************************************************)
VARIABLES
    file,            \* last_stock.json
    pc,              \* where main() is; "returned" and "raised" are its two ends
    ONLY_ON_CHANGE,  \* the configuration of the running process
    MODE,
    urls,            \* fetch_stock's locals
    i,
    total,
    current,         \* main's locals
    last,
    changes,
    sent,            \* the send_tg_message calls of this run: the text, and whether the post succeeded
    nLoads,          \* load_last_stock calls of this run
    nSaves,          \* save_stock calls of this run
    parts,           \* history: the page results fetch_stock merged (kept when track)
    track,
    fileAtStart,     \* history: the file when this run began
    lastObs,         \* history: what the latest fetch observed
    prevObs,         \* history: what the run before this one observed
    prevDeltaFailed, \* history: the run before this one ended in a failed post of a change message
    lastGood         \* history: the latest non-empty snapshot a fetch returned

vars == <<file, pc, ONLY_ON_CHANGE, MODE, urls, i, total, current, last, changes,
          sent, nLoads, nSaves, parts, track, fileAtStart, lastObs, prevObs,
          prevDeltaFailed, lastGood>>

NoObs == [kind |-> "none", snap |-> EmptyDict]
FailedObs == [kind |-> "failed", snap |-> EmptyDict]
Observed(s) == [kind |-> "ok", snap |-> s]

\* the state of a process that has not fetched yet
Fresh ==
    /\ i = 1
    /\ total = EmptyDict
    /\ current = EmptyDict
    /\ last = NoneValue
    /\ changes = EmptyDict
    /\ sent = <<>>
    /\ nLoads = 0
    /\ nSaves = 0
    /\ parts = <<>>

\* before the first run: no snapshot file, or one that does not parse
Init ==
    /\ file \in {MissingFile, CorruptFile}
    /\ pc = "not_started"
    /\ ONLY_ON_CHANGE = FALSE
    /\ MODE = "realtime"
    /\ urls = <<>>
    /\ Fresh
    /\ track = FALSE
    /\ fileAtStart = file
    /\ lastObs = NoObs
    /\ prevObs = NoObs
    /\ prevDeltaFailed = FALSE
    /\ lastGood = NoObs

(***************************************************************************)
(* main(), one action per step.                                            *)
(***************************************************************************)
\* the process ends, by main's return or by the exception nothing caught; its
\* locals are gone and only the file stays
ProcessExit ==
    /\ pc \in {"returned", "raised"}
    /\ pc' = "not_started"
    /\ i' = 1
    /\ total' = EmptyDict
    /\ current' = EmptyDict
    /\ last' = NoneValue
    /\ changes' = EmptyDict
    /\ sent' = <<>>
    /\ nLoads' = 0
    /\ nSaves' = 0
    /\ parts' = <<>>
    /\ prevObs' = lastObs
    /\ prevDeltaFailed' =
          (/\ pc = "raised"
           /\ sent # <<>>
           /\ sent[Len(sent)].text.title \in ChangeTitles)
    /\ UNCHANGED <<file, ONLY_ON_CHANGE, MODE, urls, track, fileAtStart, lastObs, lastGood>>

\* a new process starts: the module-level configuration is read, main() is called
StartRun ==
    /\ pc = "not_started"
    /\ \E raw \in RawTargetUrls, ooc \in BOOLEAN, mode \in Modes :
          /\ urls' = SplitUrls(raw)
          /\ ONLY_ON_CHANGE' = ooc
          /\ MODE' = mode
    /\ pc' = "fetch"
    /\ fileAtStart' = file
    /\ UNCHANGED <<file, i, total, current, last, changes, sent, nLoads, nSaves, parts,
                   track, lastObs, prevObs, prevDeltaFailed, lastGood>>

\* fetch_stock: one pass of the loop; an exception leaves fetch_stock and is caught by main
FetchUrl ==
    /\ pc = "fetch"
    /\ i <= Len(urls)
    /\ \E r \in PageResults :
          IF r.ok
          THEN /\ total' = Update(total, r.result)
               /\ i' = i + 1
               /\ parts' = IF track THEN Append(parts, r) ELSE parts
               /\ UNCHANGED <<pc, lastObs, urls>>
          ELSE /\ pc' = "fetch_failed"
               /\ lastObs' = FailedObs
               /\ total' = EmptyDict
               /\ i' = 1
               /\ urls' = <<>>
               /\ parts' = IF track THEN Append(parts, r) ELSE parts
    /\ UNCHANGED <<file, ONLY_ON_CHANGE, MODE, current, last, changes, sent, nLoads,
                   nSaves, track, fileAtStart, prevObs, prevDeltaFailed, lastGood>>

\* FetchReturn without the "if not current" test: a wrong main
FetchReturnNoEmptyCheck ==
    /\ pc = "fetch"
    /\ i > Len(urls)
    /\ current' = total
    /\ pc' = "load"
    /\ lastObs' = Observed(total)
    /\ lastGood' = IF total = EmptyDict THEN lastGood ELSE Observed(total)
    /\ total' = EmptyDict
    /\ i' = 1
    /\ urls' = <<>>
    /\ UNCHANGED <<file, ONLY_ON_CHANGE, MODE, last, changes, sent, nLoads, nSaves,
                   parts, track, fileAtStart, prevObs, prevDeltaFailed>>

\* fetch_stock returns total; main tests "if not current"
FetchReturn ==
    /\ pc = "fetch"
    /\ i > Len(urls)
    /\ current' = total
    /\ pc' = IF total = EmptyDict THEN "empty" ELSE "load"
    /\ lastObs' = Observed(total)
    /\ lastGood' = IF total = EmptyDict THEN lastGood ELSE Observed(total)
    /\ total' = EmptyDict
    /\ i' = 1
    /\ urls' = <<>>
    /\ UNCHANGED <<file, ONLY_ON_CHANGE, MODE, last, changes, sent, nLoads, nSaves,
                   parts, track, fileAtStart, prevObs, prevDeltaFailed>>

\* send_tg_message inside a try/except that swallows the failure: a wrong main
SendAndReturnSwallow(text) ==
    \E ok \in BOOLEAN :
        /\ sent' = Append(sent, [text |-> text, ok |-> ok])
        /\ pc' = "returned"

\* send_tg_message(text) as main's last statement: the post succeeds and main
\* returns, or raise_for_status (or the post) raises and nothing catches it
SendAndReturn(text) ==
    \E ok \in BOOLEAN :
        /\ sent' = Append(sent, [text |-> text, ok |-> ok])
        /\ pc' = IF ok THEN "returned" ELSE "raised"

\* except Exception: send the warning, return
ReportFetchFailed ==
    /\ pc = "fetch_failed"
    /\ SendAndReturn(FetchFailedMessage)
    /\ UNCHANGED <<file, ONLY_ON_CHANGE, MODE, urls, i, total, current, last, changes,
                   nLoads, nSaves, parts, track, fileAtStart, lastObs, prevObs,
                   prevDeltaFailed, lastGood>>

\* if not current: send the warning, return
ReportNothingParsed ==
    /\ pc = "empty"
    /\ SendAndReturn(NothingParsedMessage)
    /\ UNCHANGED <<file, ONLY_ON_CHANGE, MODE, urls, i, total, current, last, changes,
                   nLoads, nSaves, parts, track, fileAtStart, lastObs, prevObs,
                   prevDeltaFailed, lastGood>>

\* last = load_last_stock(); if last is None
Load ==
    /\ pc = "load"
    /\ last' = LoadLastStock(file)
    /\ nLoads' = nLoads + 1
    /\ pc' = IF LoadLastStock(file).none THEN "first_save" ELSE "diff"
    /\ UNCHANGED <<file, ONLY_ON_CHANGE, MODE, urls, i, total, current, changes, sent,
                   nSaves, parts, track, fileAtStart, lastObs, prevObs,
                   prevDeltaFailed, lastGood>>

\* first run: save_stock(current)
FirstSave ==
    /\ pc = "first_save"
    /\ file' = WrittenFile(file, current)
    /\ nSaves' = nSaves + 1
    /\ pc' = "first_send"
    /\ UNCHANGED <<ONLY_ON_CHANGE, MODE, urls, i, total, current, last, changes, sent,
                   nLoads, parts, track, fileAtStart, lastObs, prevObs,
                   prevDeltaFailed, lastGood>>

\* FirstSend that honours ONLY_ON_CHANGE: a wrong first run
FirstSendSuppressed ==
    /\ pc = "first_send"
    /\ IF ONLY_ON_CHANGE
       THEN pc' = "returned" /\ UNCHANGED sent
       ELSE SendAndReturn(WithFirstRunNote(build_full_message(current, MODE)))
    /\ UNCHANGED <<file, ONLY_ON_CHANGE, MODE, urls, i, total, current, last, changes,
                   nLoads, nSaves, parts, track, fileAtStart, lastObs, prevObs,
                   prevDeltaFailed, lastGood>>

\* first run: the full list with the first-collection note, then return
FirstSend ==
    /\ pc = "first_send"
    /\ SendAndReturn(WithFirstRunNote(build_full_message(current, MODE)))
    /\ UNCHANGED <<file, ONLY_ON_CHANGE, MODE, urls, i, total, current, last, changes,
                   nLoads, nSaves, parts, track, fileAtStart, lastObs, prevObs,
                   prevDeltaFailed, lastGood>>

\* changes = diff_stock(last, current)
Diff ==
    /\ pc = "diff"
    /\ changes' = diff_stock(last.val, current)
    /\ pc' = "save"
    /\ UNCHANGED <<file, ONLY_ON_CHANGE, MODE, urls, i, total, current, last, sent,
                   nLoads, nSaves, parts, track, fileAtStart, lastObs, prevObs,
                   prevDeltaFailed, lastGood>>

\* Save that writes only when something changed: a wrong save
SaveOnlyIfChanged ==
    /\ pc = "save"
    /\ file' = IF changes = EmptyDict THEN file ELSE WrittenFile(file, current)
    /\ nSaves' = IF changes = EmptyDict THEN nSaves ELSE nSaves + 1
    /\ pc' = "notify"
    /\ UNCHANGED <<ONLY_ON_CHANGE, MODE, urls, i, total, current, last, changes, sent,
                   nLoads, parts, track, fileAtStart, lastObs, prevObs,
                   prevDeltaFailed, lastGood>>

\* Save left for after a successful send, which never comes: a wrong save
SaveSkipped ==
    /\ pc = "save"
    /\ pc' = "notify"
    /\ UNCHANGED <<file, nSaves, ONLY_ON_CHANGE, MODE, urls, i, total, current, last,
                   changes, sent, nLoads, parts, track, fileAtStart, lastObs, prevObs,
                   prevDeltaFailed, lastGood>>

\* save_stock(current), before anything is sent
Save ==
    /\ pc = "save"
    /\ file' = WrittenFile(file, current)
    /\ nSaves' = nSaves + 1
    /\ pc' = "notify"
    /\ UNCHANGED <<ONLY_ON_CHANGE, MODE, urls, i, total, current, last, changes, sent,
                   nLoads, parts, track, fileAtStart, lastObs, prevObs,
                   prevDeltaFailed, lastGood>>

\* if not changes: nothing when ONLY_ON_CHANGE, else the full list
NotifyNoChange ==
    /\ pc = "notify"
    /\ changes = EmptyDict
    /\ IF ONLY_ON_CHANGE
       THEN pc' = "returned" /\ UNCHANGED sent
       ELSE SendAndReturn(build_full_message(current, MODE))
    /\ UNCHANGED <<file, ONLY_ON_CHANGE, MODE, urls, i, total, current, last, changes,
                   nLoads, nSaves, parts, track, fileAtStart, lastObs, prevObs,
                   prevDeltaFailed, lastGood>>

\* NotifyChange that sends the change list whatever ONLY_ON_CHANGE is: a wrong main
NotifyChangeAlwaysDelta ==
    /\ pc = "notify"
    /\ changes # EmptyDict
    /\ SendAndReturn(build_change_message(changes, MODE))
    /\ UNCHANGED <<file, ONLY_ON_CHANGE, MODE, urls, i, total, current, last, changes,
                   nLoads, nSaves, parts, track, fileAtStart, lastObs, prevObs,
                   prevDeltaFailed, lastGood>>

\* there are changes: the change list when ONLY_ON_CHANGE, else the full list
NotifyChange ==
    /\ pc = "notify"
    /\ changes # EmptyDict
    /\ SendAndReturn(IF ONLY_ON_CHANGE
                     THEN build_change_message(changes, MODE)
                     ELSE build_full_message(current, MODE))
    /\ UNCHANGED <<file, ONLY_ON_CHANGE, MODE, urls, i, total, current, last, changes,
                   nLoads, nSaves, parts, track, fileAtStart, lastObs, prevObs,
                   prevDeltaFailed, lastGood>>

Next ==
    \/ StartRun
    \/ ProcessExit
    \/ FetchUrl
    \/ FetchReturn
    \/ ReportFetchFailed
    \/ ReportNothingParsed
    \/ Load
    \/ FirstSave
    \/ FirstSend
    \/ Diff
    \/ Save
    \/ NotifyNoChange
    \/ NotifyChange

Spec == Init /\ [][Next]_vars

(***************************************************************************)
(* diff_stock on its own: any two snapshots, and the documented example.   *)
(***************************************************************************)
ExamplePrev == ("HK-1" :> 7) @@ ("CA" :> 0)
ExampleCur == ("HK-1" :> 7) @@ ("CA" :> 3) @@ ("DE" :> 0)
ExampleChanges == ("CA" :> <<0, 3>>) @@ ("DE" :> <<None, 0>>)

InitDiff ==
    /\ file = MissingFile
    /\ pc = "diff"
    /\ ONLY_ON_CHANGE = FALSE
    /\ MODE = "realtime"
    /\ urls = <<>>
    /\ i = 1
    /\ total = EmptyDict
    /\ \E old \in Snapshots \cup {ExamplePrev}, new \in Snapshots \cup {ExampleCur} :
          /\ last = [none |-> FALSE, val |-> old]
          /\ current = new
    /\ changes = EmptyDict
    /\ sent = <<>>
    /\ nLoads = 0
    /\ nSaves = 0
    /\ parts = <<>>
    /\ track = FALSE
    /\ fileAtStart = file
    /\ lastObs = NoObs
    /\ prevObs = NoObs
    /\ prevDeltaFailed = FALSE
    /\ lastGood = NoObs

NextDiff == Diff

SpecDiff == InitDiff /\ [][NextDiff]_vars

(***************************************************************************)
(* fetch_stock on its own: the page results it merged are kept in parts.   *)
(***************************************************************************)
InitFetch ==
    /\ file = MissingFile
    /\ pc = "not_started"
    /\ ONLY_ON_CHANGE = FALSE
    /\ MODE = "realtime"
    /\ urls = <<>>
    /\ Fresh
    /\ track = TRUE
    /\ fileAtStart = file
    /\ lastObs = NoObs
    /\ prevObs = NoObs
    /\ prevDeltaFailed = FALSE
    /\ lastGood = NoObs

NextFetch ==
    \/ StartRun
    \/ FetchUrl
    \/ FetchReturn

SpecFetch == InitFetch /\ [][NextFetch]_vars

(***************************************************************************)
(* Vocabulary of the properties.                                           *)
(***************************************************************************)
Ended == pc \in {"returned", "raised"}
\* this run's fetch returned a non-empty snapshot
FetchedSnapshot == current # EmptyDict
\* the prior snapshot this run started from (none when the file is missing or unreadable)
Baseline == LoadLastStock(fileAtStart)
\* the names whose value in the baseline differs from the one observed, a missing name
\* differing from every count
ChangedNames == {k \in Names : Get(Baseline.val, k) # Get(current, k)}
HoldsSnapshot(f, d) == f.state = "json" /\ JsonLoad(f.text) = d
Lines(msg) == {msg.hk[j] : j \in DOMAIN msg.hk} \cup {msg.other[j] : j \in DOMAIN msg.other}
\* msg lists every item of d with its count, and nothing else
IsFullSnapshot(msg, d) ==
    /\ msg.title \in FullTitles
    /\ MessageNames(msg) = DOMAIN d
    /\ \A l \in Lines(msg) : l.count = ToString(d[l.name])
\* msg lists the names of S only, as changes
IsDeltaOf(msg, S) ==
    /\ msg.title \in ChangeTitles
    /\ MessageNames(msg) = S

(***************************************************************************)
(* C1: diff_stock(A, B) has key k iff A.get(k) differs from B.get(k), a    *)
(* missing key differing from every count, 0 included; the entry is the    *)
(* pair (value in A or absent, value in B or absent); the result is empty  *)
(* iff A = B; and the documented example gives {CA: (0,3), DE: (absent,0)}.*)
(***************************************************************************)
C1_DiffContract ==
    pc = "save" =>
        /\ \A k \in Names :
              k \in DOMAIN changes <=> Get(last.val, k) # Get(current, k)
        /\ \A k \in DOMAIN changes :
              changes[k] = <<Get(last.val, k), Get(current, k)>>
        /\ changes = EmptyDict <=> last.val = current
        /\ (last.val = ExamplePrev /\ current = ExampleCur) => changes = ExampleChanges

C1_Witness ==
    /\ pc = "save"
    /\ last.val = ExamplePrev
    /\ current = ExampleCur
    /\ DOMAIN changes = {"CA", "DE"}
    /\ changes["DE"] = <<None, 0>>

(***************************************************************************)
(* C7: diff_stock(A, B) and diff_stock(B, A) have the same keys, and each  *)
(* entry of the one is the entry of the other with old and new swapped.    *)
(***************************************************************************)
C7_DiffSwap ==
    pc = "save" =>
        LET back == diff_stock(current, last.val)
        IN /\ DOMAIN back = DOMAIN changes
           /\ \A k \in DOMAIN changes : back[k] = <<changes[k][2], changes[k][1]>>

C7_Witness ==
    /\ pc = "save"
    /\ \E k \in DOMAIN changes : changes[k][1] = None
    /\ \E k \in DOMAIN changes : changes[k][2] = None
    /\ \E k \in DOMAIN changes : changes[k][1] # None /\ changes[k][2] # None

(***************************************************************************)
(* C8: fetch_stock returns the page results merged in URL order, the last  *)
(* page that has a name giving its value, the keys being the union of the  *)
(* pages' keys; when one page read fails the fetch fails and nothing is    *)
(* returned.                                                               *)
(***************************************************************************)
\* the last page of parts that has name k (0 when none has)
LastPageWith(k) ==
    LET has == {j \in DOMAIN parts : k \in DOMAIN parts[j].result}
    IN IF has = {} THEN 0 ELSE CHOOSE j \in has : \A m \in has : m <= j

C8_MergeLastWins ==
    track =>
        /\ pc \in {"load", "empty"} =>
              /\ \A j \in DOMAIN parts : parts[j].ok
              /\ DOMAIN current = UNION {DOMAIN parts[j].result : j \in DOMAIN parts}
              /\ \A k \in DOMAIN current : current[k] = parts[LastPageWith(k)].result[k]
        /\ (\E j \in DOMAIN parts : ~parts[j].ok) =>
              /\ pc = "fetch_failed"
              /\ current = EmptyDict
              /\ ~parts[Len(parts)].ok

C8_Witness ==
    /\ track
    /\ pc = "load"
    /\ Len(parts) = 2
    /\ \E k \in DOMAIN parts[1].result \cap DOMAIN parts[2].result :
          /\ parts[1].result[k] # parts[2].result[k]
          /\ current[k] = parts[2].result[k]
    /\ \E k \in DOMAIN parts[1].result : k \notin DOMAIN parts[2].result

(***************************************************************************)
(* C2: in a run whose fetch gave a non-empty snapshot the file holds that  *)
(* snapshot before any send_tg_message call, whatever ONLY_ON_CHANGE and   *)
(* the change set are; so it holds it when the run ends, by return (with   *)
(* or without a message) or by the notifier's exception.                   *)
(***************************************************************************)
C2_StoreWrittenBeforeNotify ==
    /\ [](FetchedSnapshot /\ (sent # <<>> \/ Ended) => HoldsSnapshot(file, current))
    /\ [][FetchedSnapshot /\ Len(sent') > Len(sent) =>
             HoldsSnapshot(file, current) /\ file' = file]_vars

C2_Witness ==
    /\ pc = "raised"
    /\ FetchedSnapshot
    /\ ~Baseline.none
    /\ ChangedNames # {}
    /\ ~sent[1].ok
    /\ HoldsSnapshot(file, current)
    /\ file # fileAtStart

(***************************************************************************)
(* C3: when the fetch raises or gives an empty snapshot, the run sends one *)
(* warning and ends without a load_last_stock or save_stock call: the file *)
(* is what it was when the run began (missing, if it was missing).         *)
(***************************************************************************)
C3_FailedFetchLeavesStore ==
    /\ pc \in {"fetch_failed", "empty"} =>
          sent = <<>> /\ nLoads = 0 /\ nSaves = 0 /\ file = fileAtStart
    /\ (Ended /\ (lastObs = FailedObs \/ lastObs = Observed(EmptyDict))) =>
          /\ Len(sent) = 1
          /\ sent[1].text =
                IF lastObs = FailedObs THEN FetchFailedMessage ELSE NothingParsedMessage
          /\ nLoads = 0
          /\ nSaves = 0
          /\ file = fileAtStart

C3_Witness ==
    /\ pc = "returned"
    /\ lastObs = Observed(EmptyDict)
    /\ sent = <<[text |-> NothingParsedMessage, ok |-> TRUE]>>
    /\ file.state = "json"
    /\ file = fileAtStart

(***************************************************************************)
(* C4: with a non-empty fetched snapshot and a prior snapshot, what is     *)
(* sent is decided by (no change?, ONLY_ON_CHANGE): (yes, true) nothing;   *)
(* (yes, false) the full list; (no, true) the changed entries only;        *)
(* (no, false) the full list.                                              *)
(***************************************************************************)
C4_NotifyDecisionTable ==
    (Ended /\ FetchedSnapshot /\ ~Baseline.none) =>
        IF ChangedNames = {} /\ ONLY_ON_CHANGE
        THEN sent = <<>>
        ELSE /\ Len(sent) = 1
             /\ sent[1].text.suffix = ""
             /\ IF ChangedNames # {} /\ ONLY_ON_CHANGE
                THEN /\ IsDeltaOf(sent[1].text, ChangedNames)
                     /\ \A l \in Lines(sent[1].text) :
                           l.count = ValueText(Get(Baseline.val, l.name)) \o "->"
                                        \o ValueText(Get(current, l.name))
                ELSE IsFullSnapshot(sent[1].text, current)

C4_Witness ==
    /\ pc = "returned"
    /\ FetchedSnapshot
    /\ ~Baseline.none
    /\ ONLY_ON_CHANGE
    /\ ChangedNames = {"DE"}
    /\ Cardinality(DOMAIN current) = 3
    /\ Len(sent) = 1
    /\ MessageNames(sent[1].text) = {"DE"}

(***************************************************************************)
(* C5: a first run (no prior snapshot loaded, non-empty fetch) sends the   *)
(* full list with the first-collection note, whatever ONLY_ON_CHANGE is,   *)
(* and leaves the file holding the observed snapshot.                      *)
(***************************************************************************)
C5_FirstRunFull ==
    (Ended /\ FetchedSnapshot /\ Baseline.none) =>
        /\ Len(sent) = 1
        /\ IsFullSnapshot(sent[1].text, current)
        /\ sent[1].text.suffix = "first_collection"
        /\ HoldsSnapshot(file, current)

C5_Witness ==
    /\ pc = "returned"
    /\ FetchedSnapshot
    /\ fileAtStart = CorruptFile
    /\ ONLY_ON_CHANGE
    /\ Len(sent) = 1
    /\ sent[1].text.suffix = "first_collection"
    /\ HoldsSnapshot(file, current)

C9_EveryRunWritesOnce ==
    /\ Ended => nSaves = 1
    /\ (pc = "not_started" /\ lastObs # NoObs) =>
          lastObs.kind = "ok" /\ HoldsSnapshot(file, lastObs.snap)

(***************************************************************************)
(* C9, amended: a run whose fetch gives a non-empty snapshot writes the    *)
(* file exactly once, with that snapshot; a run whose fetch fails or gives *)
(* nothing does not write it; so when a run starts the file holds the      *)
(* latest non-empty snapshot any earlier run observed.                     *)
(***************************************************************************)
C9_FetchedRunWritesOnce ==
    /\ Ended => nSaves = IF FetchedSnapshot THEN 1 ELSE 0
    /\ (Ended /\ FetchedSnapshot) => HoldsSnapshot(file, current)
    /\ (pc \in {"not_started", "fetch"} /\ lastGood # NoObs) =>
          HoldsSnapshot(file, lastGood.snap)

C9_Witness ==
    /\ pc = "fetch"
    /\ lastObs = FailedObs
    /\ lastGood # NoObs
    /\ HoldsSnapshot(file, lastGood.snap)

(***************************************************************************)
(* C10: with ONLY_ON_CHANGE, after a run whose change message failed to    *)
(* post, a next run observing the same snapshot finds no change and sends  *)
(* nothing; and a change line for a name is sent in a run only if the      *)
(* name's observed value differs from its value in the file as the run     *)
(* began.                                                                  *)
(***************************************************************************)
C10_ChangesReportedAtMostOnce ==
    /\ (Ended /\ ONLY_ON_CHANGE /\ prevDeltaFailed /\ FetchedSnapshot
            /\ prevObs = Observed(current)) =>
          changes = EmptyDict /\ sent = <<>>
    /\ \A j \in DOMAIN sent :
          sent[j].text.title \in ChangeTitles =>
             /\ ~Baseline.none
             /\ \A k \in MessageNames(sent[j].text) :
                   Get(current, k) # Get(Baseline.val, k)

C10_Witness ==
    /\ pc = "returned"
    /\ ONLY_ON_CHANGE
    /\ prevDeltaFailed
    /\ FetchedSnapshot
    /\ prevObs = Observed(current)
    /\ sent = <<>>
====
